---- MODULE Spec2Model ----
(***************************************************************************)
(* Model of src/patternred.py: PatternRedactorProcessor.mask_matches and   *)
(* PatternRedactorProcessor.process.                                       *)
(*                                                                         *)
(* Text is a sequence of one-character strings.  A regular expression is   *)
(* a sequence of atoms [cls, min, max]: a character class repeated         *)
(* greedily between min and max times (x{m,n}); this covers the shapes of  *)
(* the shipped rules (\d{13}, \d{3}-\d{7}, [..]+@[..]+) at small scale.    *)
(***************************************************************************)
EXTENDS Integers, Sequences, FiniteSets, TLC

VARIABLES
    pc,                      \* position in process / mask_matches
    caller,                  \* who called mask_matches: "direct", "prompt", "response"
    parameters,              \* PatternRedactorParameters
    messages,                \* prompt.messages
    response,                \* the response object (or absent)
    prompt_in,               \* prompt.messages as passed to process
    response_in,             \* response as passed to process
    user_input,              \* process local
    masked_content,          \* process local
    masked_response_content, \* process local, possibly unbound
    content_in,              \* mask_matches argument `content` as passed
    content,                 \* mask_matches `content` (reassigned by the loop)
    patterns,                \* mask_matches argument
    reveal_start,            \* mask_matches argument
    reveal_end,              \* mask_matches argument
    placeholder,             \* mask_matches argument
    idx,                     \* index of the current compiled pattern
    scan,                    \* state of pattern.sub over `content`
    matched,                 \* last call of partial_mask: its match and its return
    result,                  \* what process returned
    error                    \* the exception process or mask_matches raised

vars == << pc, caller, parameters, messages, response, prompt_in, response_in,
           user_input, masked_content, masked_response_content, content_in,
           content, patterns, reveal_start, reveal_end, placeholder, idx, scan,
           matched, result, error >>

maskVars == << content_in, content, patterns, reveal_start, reveal_end,
               placeholder, idx, scan, matched >>

procVars == << parameters, messages, response, prompt_in, response_in,
               user_input, masked_content, masked_response_content, result >>

\* ------------------------------------------------------------------ bounds
MaxLen == 3
MaxRules == 2
MaxReveal == 1
MaxMsgs == 2
MaxChoices == 2

\* --------------------------------------------------------------- constants
\* the repeat ceiling of the re engine for + and *: above every text length
MAXREPEAT == 2147483647

DEFAULT_PLACEHOLDER == <<"*">>

DEFAULT_REVEAL_START == 2

DEFAULT_REVEAL_END == 2

Chars == {"1", "a"}

Roles == {"user", "system"}

\* 1{2}: a fixed-width digit run, the small-scale \d{13}
PDigits == << [cls |-> {"1"}, min |-> 2, max |-> 2] >>
\* [1a]+a: needs backtracking, the small-scale [..]+@[..]+ rule
PWord == << [cls |-> {"1", "a"}, min |-> 1, max |-> MAXREPEAT],
            [cls |-> {"a"}, min |-> 1, max |-> 1] >>
\* a*: matches the empty string
PStar == << [cls |-> {"a"}, min |-> 0, max |-> MAXREPEAT] >>
\* .{3}: matches anything, placeholders included
PAny == << [cls |-> Chars \cup {"*", " "}, min |-> 3, max |-> 3] >>
\* a{2,1}: re.error "min repeat greater than max repeat"
PBad == << [cls |-> {"a"}, min |-> 2, max |-> 1] >>

Patterns == {PDigits, PWord, PStar, PAny, PBad}

\* the rules a process configuration draws from
ProcPatterns == {PDigits, PBad}

Placeholders == {DEFAULT_PLACEHOLDER, <<"1">>}

\* message and choice texts of a process invocation
MsgTexts == {<<"1", "1">>, <<"a">>}

\* ----------------------------------------------------------------- helpers
Min(a, b) == IF a < b THEN a ELSE b

Max(a, b) == IF a > b THEN a ELSE b

SeqsUpTo(S, n) == UNION {[1..k -> S] : k \in 0..n}

\* placeholder * n (a non-positive count gives the empty string)
RECURSIVE Repeat(_, _)
Repeat(s, n) == IF n <= 0 THEN <<>> ELSE s \o Repeat(s, n - 1)

\* s[:k]
SliceTo(s, k) ==
    LET hi == IF k < 0 THEN Max(Len(s) + k, 0) ELSE Min(k, Len(s))
    IN  SubSeq(s, 1, hi)

\* s[k:]
SliceFrom(s, k) ==
    LET lo == IF k < 0 THEN Max(Len(s) + k, 0) ELSE Min(k, Len(s))
    IN  SubSeq(s, lo + 1, Len(s))

\* re.compile(pattern) succeeds
Compiles(p) == \A j \in 1..Len(p) : p[j].min <= p[j].max

\* number of consecutive characters of cls in text from offset i
RECURSIVE Run(_, _, _)
Run(cls, text, i) ==
    IF i < Len(text) /\ text[i + 1] \in cls THEN 1 + Run(cls, text, i + 1) ELSE 0

\* Backtracking match of atoms j.. of p at offset i; the end offset of the
\* first match in preference order whose end is at least lo, or -1.
RECURSIVE MatchFrom(_, _, _, _, _)
RECURSIVE TryCount(_, _, _, _, _, _)
MatchFrom(p, j, text, i, lo) ==
    IF j > Len(p)
    THEN IF i >= lo THEN i ELSE -1
    ELSE TryCount(p, j, text, i, lo, Min(p[j].max, Run(p[j].cls, text, i)))

TryCount(p, j, text, i, lo, n) ==
    IF n < p[j].min THEN -1
    ELSE LET r == MatchFrom(p, j + 1, text, i + n, lo)
         IN  IF r # -1 THEN r ELSE TryCount(p, j, text, i, lo, n - 1)

\* pattern.search from offset s; the first candidate offset is `start`,
\* where an empty match is refused when must_advance is set.
RECURSIVE Search(_, _, _, _, _)
Search(p, text, s, start, must) ==
    IF s > Len(text) THEN [found |-> FALSE, b |-> 0, e |-> 0]
    ELSE LET lo == IF s = start /\ must THEN s + 1 ELSE s
             e  == MatchFrom(p, 1, text, s, lo)
         IN  IF e # -1 THEN [found |-> TRUE, b |-> s, e |-> e]
             ELSE Search(p, text, s + 1, start, must)

\* partial_mask with the short-match test written < instead of <=
partial_mask_strict(matched_text) ==
    LET length == Len(matched_text)
    IN  IF length < reveal_start + reveal_end
        THEN Repeat(placeholder, length)
        ELSE SliceTo(matched_text, reveal_start)
                 \o Repeat(placeholder, length - (reveal_start + reveal_end))
                 \o SliceFrom(matched_text, 0 - reveal_end)

\* lines 83-94; reveal_start, reveal_end and placeholder are the enclosing
\* call's arguments
partial_mask(matched_text) ==
    LET length == Len(matched_text)
    IN  IF length <= reveal_start + reveal_end
        THEN Repeat(placeholder, length)
        ELSE LET visible_start == SliceTo(matched_text, reveal_start)
                 visible_end == SliceFrom(matched_text, 0 - reveal_end)
                 masked_part == Repeat(placeholder, length - (reveal_start + reveal_end))
             IN  visible_start \o masked_part \o visible_end

\* ------------------------------------------------------------ mask_matches
NoScan == [pos |-> 0, start |-> 0, must_advance |-> FALSE, out |-> <<>>]

NoMatch == [called |-> FALSE, matched_text |-> <<>>, masked |-> <<>>]

\* pattern.sub applied to the text as passed, not to the running content
SubjectOriginal == content_in

\* line 99: the string pattern.sub is applied to
Subject == content

\* line 96: compiled_patterns = [re.compile(pattern) for pattern in patterns]
Compile ==
    /\ pc = "compile"
    /\ IF \A i \in 1..Len(patterns) : Compiles(patterns[i])
       THEN /\ pc' = "loop"
            /\ idx' = 1
            /\ error' = error
       ELSE /\ pc' = "raised"
            /\ idx' = idx
            /\ error' = "re.error"
    /\ UNCHANGED << caller, procVars, content_in, content, patterns,
                    reveal_start, reveal_end, placeholder, scan, matched >>

\* line 98: the next compiled pattern, and the start of its sub
LoopHead ==
    /\ pc = "loop"
    /\ idx <= Len(patterns)
    /\ pc' = "sub"
    /\ scan' = NoScan
    /\ UNCHANGED << caller, procVars, content_in, content, patterns,
                    reveal_start, reveal_end, placeholder, idx, matched, error >>

\* line 99, one match of pattern.sub: copy the gap, call partial_mask
SubMatch ==
    /\ pc = "sub"
    /\ LET m == Search(patterns[idx], Subject, scan.start, scan.start, scan.must_advance)
           matched_text == SubSeq(Subject, m.b + 1, m.e)
           masked == partial_mask(matched_text)
       IN  /\ m.found
           /\ matched' = [called |-> TRUE, matched_text |-> matched_text,
                          masked |-> masked]
           /\ scan' = [pos |-> m.e, start |-> m.e, must_advance |-> (m.e = m.b),
                       out |-> scan.out \o SubSeq(Subject, scan.pos + 1, m.b) \o masked]
    /\ UNCHANGED << pc, caller, procVars, content_in, content, patterns,
                    reveal_start, reveal_end, placeholder, idx, error >>

\* line 99, no further match: copy the tail and assign content
SubDone ==
    /\ pc = "sub"
    /\ ~Search(patterns[idx], Subject, scan.start, scan.start, scan.must_advance).found
    /\ content' = scan.out \o SubSeq(Subject, scan.pos + 1, Len(Subject))
    /\ idx' = idx + 1
    /\ pc' = "loop"
    /\ UNCHANGED << caller, procVars, content_in, patterns, reveal_start,
                    reveal_end, placeholder, scan, matched, error >>

\* line 101: return content
Return ==
    /\ pc = "loop"
    /\ idx > Len(patterns)
    /\ pc' = CASE caller = "prompt" -> "writeback"
               [] caller = "response" -> "broadcast"
               [] OTHER -> "returned"
    /\ masked_content' = IF caller = "prompt" THEN content ELSE masked_content
    /\ masked_response_content' =
           IF caller = "response" THEN [bound |-> TRUE, value |-> content]
           ELSE masked_response_content
    /\ UNCHANGED << caller, parameters, messages, response, prompt_in, response_in,
                    user_input, result, maskVars, error >>

\* ----------------------------------------------------------------- process
RECURSIVE JoinUser(_)
\* " ".join(message.content for message in prompt.messages if role == USER)
JoinUser(ms) ==
    IF ms = <<>> THEN <<>>
    ELSE LET rest == JoinUser(Tail(ms))
             anyRest == \E i \in 2..Len(ms) : ms[i].role = "user"
         IN  IF Head(ms).role # "user" THEN rest
             ELSE IF anyRest THEN Head(ms).content \o <<" ">> \o rest
             ELSE Head(ms).content

\* lines 104-108: join the user messages and call mask_matches
ProcessBegin ==
    /\ pc = "start"
    /\ user_input' = JoinUser(messages)
    /\ caller' = "prompt"
    /\ content_in' = user_input'
    /\ content' = user_input'
    /\ patterns' = parameters.rules
    /\ reveal_start' = parameters.reveal_start
    /\ reveal_end' = parameters.reveal_end
    /\ placeholder' = parameters.placeholder
    /\ idx' = 0
    /\ scan' = NoScan
    /\ matched' = NoMatch
    /\ pc' = "compile"
    /\ UNCHANGED << parameters, messages, response, prompt_in, response_in,
                    masked_content, masked_response_content, result, error >>

\* WriteBack without the break: every user message is overwritten
WriteBackAll ==
    /\ pc = "writeback"
    /\ messages' = [i \in 1..Len(messages) |->
                       IF messages[i].role = "user"
                       THEN [messages[i] EXCEPT !.content = masked_content]
                       ELSE messages[i]]
    /\ pc' = "response"
    /\ UNCHANGED << caller, parameters, response, prompt_in, response_in, user_input,
                    masked_content, masked_response_content, result, maskVars, error >>

\* lines 112-115: overwrite the first user message, then break
WriteBack ==
    /\ pc = "writeback"
    /\ LET users == {i \in 1..Len(messages) : messages[i].role = "user"}
       IN  IF users = {} THEN messages' = messages
           ELSE LET first == CHOOSE i \in users : \A j \in users : i <= j
                IN  messages' = [messages EXCEPT ![first].content = masked_content]
    /\ pc' = "response"
    /\ UNCHANGED << caller, parameters, response, prompt_in, response_in, user_input,
                    masked_content, masked_response_content, result, maskVars, error >>

\* lines 119-129: extract the first choice's text and call mask_matches
ResponseBegin ==
    /\ pc = "response"
    /\ IF ~response.present
       THEN /\ pc' = "finish"
            /\ UNCHANGED << caller, maskVars >>
       ELSE IF /\ response.has_choices
               /\ response.choices # <<>>
               /\ response.choices[1].has_message
       THEN /\ caller' = "response"
            /\ content_in' = response.choices[1].content
            /\ content' = response.choices[1].content
            /\ patterns' = parameters.rules
            /\ reveal_start' = parameters.reveal_start
            /\ reveal_end' = parameters.reveal_end
            /\ placeholder' = parameters.placeholder
            /\ idx' = 0
            /\ scan' = NoScan
            /\ matched' = NoMatch
            /\ pc' = "compile"
       ELSE /\ pc' = "broadcast"
            /\ UNCHANGED << caller, maskVars >>
    /\ UNCHANGED << procVars, error >>

\* Broadcast that writes the first choice only
BroadcastFirstOnly ==
    /\ pc = "broadcast"
    /\ response.has_choices
    /\ response.choices # <<>>
    /\ masked_response_content.bound
    /\ response' = [response EXCEPT
                       !.choices[1].content = masked_response_content.value]
    /\ pc' = "finish"
    /\ UNCHANGED << caller, parameters, messages, prompt_in, response_in, user_input,
                    masked_content, masked_response_content, result, maskVars, error >>

\* lines 131-133: for choice in response.choices: choice.message.content = ...
Broadcast ==
    /\ pc = "broadcast"
    /\ LET n == Len(response.choices)
           bad == {i \in 1..n : ~response.choices[i].has_message}
           stop == IF bad = {} THEN n + 1
                   ELSE CHOOSE i \in bad : \A j \in bad : i <= j
       IN  IF ~response.has_choices
           THEN /\ pc' = "raised"
                /\ error' = "AttributeError"
                /\ response' = response
           ELSE IF n > 0 /\ ~masked_response_content.bound
           THEN /\ pc' = "raised"
                /\ error' = "UnboundLocalError"
                /\ response' = response
           ELSE /\ response' =
                     [response EXCEPT !.choices =
                         [i \in 1..n |->
                             IF i < stop
                             THEN [response.choices[i] EXCEPT
                                      !.content = masked_response_content.value]
                             ELSE response.choices[i]]]
                /\ IF stop <= n
                   THEN pc' = "raised" /\ error' = "AttributeError"
                   ELSE pc' = "finish" /\ error' = error
    /\ UNCHANGED << caller, parameters, messages, prompt_in, response_in, user_input,
                    masked_content, masked_response_content, result, maskVars >>

NoResult == [returned |-> FALSE, tags |-> {}, modified |-> FALSE,
             modified_prompt |-> FALSE, modified_response |-> FALSE]

\* Finish that tags the result whether or not debug_echo is set
FinishTagAlways ==
    /\ pc = "finish"
    /\ messages' = IF parameters.debug_echo
                   THEN Append(messages, [role |-> "system",
                                          content |-> masked_content])
                   ELSE messages
    /\ result' = [returned |-> TRUE,
                  tags |-> {<<"llm_flow", "debug">>},
                  modified |-> TRUE,
                  modified_prompt |-> parameters.debug_echo \/ ~response.present,
                  modified_response |-> ~parameters.debug_echo /\ response.present]
    /\ pc' = "done"
    /\ UNCHANGED << caller, parameters, response, prompt_in, response_in, user_input,
                    masked_content, masked_response_content, maskVars, error >>

\* lines 135-159: the debug echo and the returned Result
Finish ==
    /\ pc = "finish"
    /\ IF parameters.debug_echo
       THEN /\ messages' = Append(messages, [role |-> "system",
                                             content |-> masked_content])
            /\ result' = [returned |-> TRUE,
                          tags |-> {<<"llm_flow", "debug">>},
                          modified |-> TRUE,
                          modified_prompt |-> TRUE,
                          modified_response |-> FALSE]
       ELSE /\ messages' = messages
            /\ result' = [returned |-> TRUE,
                          tags |-> {},
                          modified |-> TRUE,
                          modified_prompt |-> ~response.present,
                          modified_response |-> response.present]
    /\ pc' = "done"
    /\ UNCHANGED << caller, parameters, response, prompt_in, response_in, user_input,
                    masked_content, masked_response_content, maskVars, error >>

\* ---------------------------------------------------------- specifications
NoResponse == [present |-> FALSE, has_choices |-> FALSE, choices |-> <<>>]

Choices == [has_message : {TRUE}, content : MsgTexts]
               \cup {[has_message |-> FALSE, content |-> <<>>]}

Responses ==
    {NoResponse, [present |-> TRUE, has_choices |-> FALSE, choices |-> <<>>]}
        \cup {[present |-> TRUE, has_choices |-> TRUE, choices |-> cs] :
                 cs \in SeqsUpTo(Choices, MaxChoices)}

\* process(prompt, response, metadata, parameters, request) is entered
Init ==
    /\ pc = "start"
    /\ caller = "none"
    /\ parameters \in [rules : SeqsUpTo(ProcPatterns, MaxRules),
                       debug_echo : BOOLEAN,
                       placeholder : {DEFAULT_PLACEHOLDER},
                       reveal_start : {0, DEFAULT_REVEAL_START},
                       reveal_end : {0, DEFAULT_REVEAL_END}]
    /\ messages \in SeqsUpTo([role : Roles, content : MsgTexts], MaxMsgs)
    /\ response \in Responses
    /\ prompt_in = messages
    /\ response_in = response
    /\ user_input = <<>>
    /\ masked_content = <<>>
    /\ masked_response_content = [bound |-> FALSE, value |-> <<>>]
    /\ content_in = <<>>
    /\ content = <<>>
    /\ patterns = <<>>
    /\ reveal_start = 0
    /\ reveal_end = 0
    /\ placeholder = <<>>
    /\ idx = 0
    /\ scan = NoScan
    /\ matched = NoMatch
    /\ result = NoResult
    /\ error = "none"

Next ==
    \/ ProcessBegin
    \/ Compile
    \/ LoopHead
    \/ SubMatch
    \/ SubDone
    \/ Return
    \/ WriteBack
    \/ ResponseBegin
    \/ Broadcast
    \/ Finish

Spec == Init /\ [][Next]_vars

\* mask_matches(content, patterns, reveal_start, reveal_end, placeholder) is
\* entered on its own
InitMask ==
    /\ pc = "compile"
    /\ caller = "direct"
    /\ content_in \in SeqsUpTo(Chars, MaxLen)
    /\ content = content_in
    /\ patterns \in SeqsUpTo(Patterns, MaxRules)
    /\ reveal_start \in 0..MaxReveal
    /\ reveal_end \in 0..MaxReveal
    /\ placeholder \in Placeholders
    /\ idx = 0
    /\ scan = NoScan
    /\ matched = NoMatch
    /\ parameters = [rules |-> patterns, debug_echo |-> FALSE,
                     placeholder |-> placeholder,
                     reveal_start |-> reveal_start, reveal_end |-> reveal_end]
    /\ messages = <<>>
    /\ response = NoResponse
    /\ prompt_in = <<>>
    /\ response_in = NoResponse
    /\ user_input = <<>>
    /\ masked_content = <<>>
    /\ masked_response_content = [bound |-> FALSE, value |-> <<>>]
    /\ result = NoResult
    /\ error = "none"

NextMask ==
    \/ Compile
    \/ LoopHead
    \/ SubMatch
    \/ SubDone
    \/ Return

SpecMask == InitMask /\ [][NextMask]_vars

\* ------------------------------------------------- reference definitions
\* pattern.sub(partial_mask, text) as one value: the replacements of every
\* match found from offset `start` on, after the text copied up to `pos`
RECURSIVE SubFrom(_, _, _, _, _)
SubFrom(p, text, pos, start, must) ==
    LET m == Search(p, text, start, start, must)
    IN  IF ~m.found THEN SubSeq(text, pos + 1, Len(text))
        ELSE SubSeq(text, pos + 1, m.b)
                 \o partial_mask(SubSeq(text, m.b + 1, m.e))
                 \o SubFrom(p, text, m.e, m.e, m.e = m.b)

SubOne(p, text) == SubFrom(p, text, 0, 0, FALSE)

\* left-to-right fold of single-rule substitution over a rules list
RECURSIVE FoldRules(_, _)
FoldRules(rules, text) ==
    IF rules = <<>> THEN text ELSE FoldRules(Tail(rules), SubOne(Head(rules), text))

HasMatch(p, text) == Search(p, text, 0, 0, FALSE).found

UserIdx(ms) == {i \in 1..Len(ms) : ms[i].role = "user"}

FirstUser(ms) == CHOOSE i \in UserIdx(ms) : \A j \in UserIdx(ms) : i <= j

AllCompile(rules) == \A i \in 1..Len(rules) : Compiles(rules[i])

\* process is past its write-back to the prompt (lines 112-115)
WrittenBack ==
    \/ pc \in {"response", "broadcast", "finish", "done"}
    \/ caller = "response"

\* ------------------------------------------------------------------ claims

\* C1: every match longer than reveal_start + reveal_end is replaced, for a
\* one-character placeholder and any non-negative reveal counts (0 included),
\* by its first reveal_start characters, then placeholders, then its last
\* reveal_end characters.
C1_RevealCorrect ==
    (/\ matched.called
     /\ Len(placeholder) = 1
     /\ Len(matched.matched_text) > reveal_start + reveal_end)
    => LET m == matched.matched_text
           L == Len(m)
       IN  matched.masked =
               SubSeq(m, 1, reveal_start)
                   \o Repeat(placeholder, L - reveal_start - reveal_end)
                   \o SubSeq(m, L - reveal_end + 1, L)

\* C2: each match is replaced by a string of the match's length, so the
\* text mask_matches returns is as long as the text it was given.
C2_LengthPreserved ==
    /\ matched.called => Len(matched.masked) = Len(matched.matched_text)
    /\ (pc = "returned" /\ caller = "direct") => Len(content) = Len(content_in)

\* C3: a match no longer than reveal_start + reveal_end (an empty match
\* included) is replaced by exactly len(match) placeholders.
C3_FullMask ==
    (/\ matched.called
     /\ Len(matched.matched_text) <= reveal_start + reveal_end)
    => matched.masked = Repeat(placeholder, Len(matched.matched_text))

\* C3 witness: a two-character match met by reveal counts 1 + 1 and masked whole
C3_Witness ==
    /\ matched.called
    /\ reveal_start = 1
    /\ reveal_end = 1
    /\ matched.matched_text = <<"1", "1">>
    /\ matched.masked = <<"*", "*">>

\* C3, the empty match: a zero-length match is replaced by the empty string
C3_EmptyMatchReached ==
    /\ matched.called
    /\ matched.matched_text = <<>>
    /\ matched.masked = <<>>

\* C4: once process has written back, the first user message holds
\* mask_matches of the space-joined original user contents, every other
\* message holds its original content, and without a user message nothing
\* is changed.
C4_WriteBack ==
    WrittenBack =>
        /\ Len(messages) >= Len(prompt_in)
        /\ \A i \in 1..Len(prompt_in) :
               /\ messages[i].role = prompt_in[i].role
               /\ messages[i].content =
                      IF UserIdx(prompt_in) # {} /\ i = FirstUser(prompt_in)
                      THEN FoldRules(parameters.rules, JoinUser(prompt_in))
                      ELSE prompt_in[i].content

\* C4 witness: two user messages, the first rewritten to the masked join
C4_Witness ==
    /\ pc = "done"
    /\ prompt_in = << [role |-> "user", content |-> <<"1", "1">>],
                      [role |-> "user", content |-> <<"a">>] >>
    /\ messages[1].content = <<"*", "*", " ", "a">>
    /\ messages[2].content = <<"a">>

\* C5: after process returns on a response with at least one choice, every
\* choice holds mask_matches of the first choice's original content.
C5_Broadcast ==
    (/\ pc \in {"finish", "done"}
     /\ response_in.present
     /\ response_in.has_choices
     /\ response_in.choices # <<>>)
    => /\ Len(response.choices) = Len(response_in.choices)
       /\ \A i \in 1..Len(response.choices) :
              response.choices[i].content =
                  FoldRules(parameters.rules, response_in.choices[1].content)

\* C5 witness: two choices of different text both end as the masked first
C5_Witness ==
    /\ pc = "done"
    /\ Len(response_in.choices) = 2
    /\ response_in.choices[1].content = <<"1", "1">>
    /\ response_in.choices[2].content = <<"a">>
    /\ response.choices[1].content = <<"*", "*">>
    /\ response.choices[2].content = <<"*", "*">>

\* C6: under a rules list holding an invalid regular expression no process
\* invocation raises a regex-compilation error, and none changes a message.
C6_InvalidRegexRejectedEarly ==
    /\ error # "re.error"
    /\ ~AllCompile(parameters.rules) =>
           /\ messages = prompt_in
           /\ response = response_in

\* C7: with a response present, whatever it lacks (the choices attribute,
\* any choice, a message on a choice), process does not raise on the
\* response side.
C7_AbsentFieldsNeverRaise ==
    response_in.present =>
        ~(pc = "raised" /\ error \in {"AttributeError", "UnboundLocalError"})

\* C8: whenever process returns with a response present, under either value
\* of debug_echo, the Result reports modified and carries the response.
C8_ResponseCarried ==
    (pc = "done" /\ response_in.present) =>
        /\ result.returned
        /\ result.modified
        /\ result.modified_response

\* C9: with debug_echo set, process appends exactly one system message
\* holding the masked user text and tags the result llm_flow = debug; with
\* debug_echo clear it appends nothing and the tag set is empty.
C9_DebugEcho ==
    pc = "done" =>
        IF parameters.debug_echo
        THEN /\ Len(messages) = Len(prompt_in) + 1
             /\ messages[Len(messages)] =
                    [role |-> "system",
                     content |-> FoldRules(parameters.rules, JoinUser(prompt_in))]
             /\ result.tags = {<<"llm_flow", "debug">>}
        ELSE /\ Len(messages) = Len(prompt_in)
             /\ result.tags = {}

\* C9 witness: debug_echo set, the masked user text echoed as a system message
C9_Witness ==
    /\ pc = "done"
    /\ parameters.debug_echo
    /\ Len(prompt_in) = 1
    /\ prompt_in[1] = [role |-> "user", content |-> <<"1", "1">>]
    /\ messages[2] = [role |-> "system", content |-> <<"*", "*">>]
    /\ result.tags = {<<"llm_flow", "debug">>}

\* C10: the rules are applied in list order, each to the text the previous
\* one produced: after idx - 1 rules the content is the left-to-right fold of
\* single-rule substitution over those rules; with no rule, or no rule
\* matching, mask_matches returns the text unchanged.
C10_SequentialFold ==
    (pc \in {"loop", "returned"} /\ caller = "direct") =>
        /\ content = FoldRules(SubSeq(patterns, 1, idx - 1), content_in)
        /\ pc = "returned" =>
               /\ idx = Len(patterns) + 1
               /\ patterns = <<>> => content = content_in
               /\ (\A i \in 1..Len(patterns) : ~HasMatch(patterns[i], content_in))
                      => content = content_in

\* C10 witness: the second rule re-masks placeholders the first rule wrote,
\* so the result differs from applying the second rule to the original text
C10_Witness ==
    /\ pc = "returned"
    /\ caller = "direct"
    /\ patterns = <<PDigits, PAny>>
    /\ content_in = <<"1", "1", "a">>
    /\ reveal_start = 1
    /\ reveal_end = 1
    /\ placeholder = <<"*">>
    /\ content = <<"*", "*", "a">>

====
